---- MODULE Spec2Model ----
(***************************************************************************)
(* Model of the KnowledgeGraph component of src/src/App.tsx: the fetch of  *)
(* the node-id list, the concurrent per-node fragment fetches joined by    *)
(* Promise.all, the aggregation loop over the fragments (allNodes and      *)
(* edgeMap), the force layout (300 ticks), the projection and the React    *)
(* state (nodes, edges, loading).                                          *)
(*                                                                         *)
(* Strings that the code concatenates (node ids, the edge key) are         *)
(* sequences of one-character strings, so `${source}-${target}` is a real  *)
(* concatenation.  An optional JSON field is a sequence of length 0        *)
(* (absent) or 1 (present).                                                *)
(***************************************************************************)
EXTENDS Integers, Sequences, FiniteSets, TLC

VARIABLES
    pc,                 \* position of fetchGraph
    idsOutcome,         \* what GET /graphs/nodes does: "ok", "reject", "malformed"
    idList,             \* nodeIdsData.id
    replies,            \* what the i-th GET /graphs/<id>/connections does
    promises,           \* connectionPromises: state of each promise
    results,            \* values Promise.all has collected, by index
    connectionsData,    \* the array Promise.all resolved with
    aggIdx,             \* index of the forEach over connectionsData
    allNodes,           \* Map<string, ForceNodeData>
    edgeMap,            \* Map<string, InputEdge>
    graphData,          \* {nodes, edges}
    sim,                \* x/y of each node of graphData.nodes (d3 writes them)
    ticks,              \* loop counter i of the tick loop
    nodesWithPositions, \* local of applyForceLayout
    formattedEdges,     \* local of applyForceLayout
    nodes,              \* React state (useNodesState)
    edges,              \* React state (useEdgesState)
    loading,            \* React state (useState(true))
    caught              \* the catch block has run

vars == <<pc, idsOutcome, idList, replies, promises, results, connectionsData,
          aggIdx, allNodes, edgeMap, graphData, sim, ticks, nodesWithPositions,
          formattedEdges, nodes, edges, loading, caught>>

----------------------------------------------------------------------------
(* Bounds of the model *)

MaxFetches == 2
MaxFragments == 2
MaxNeighbors == 1
MaxEdges == 1

(* Program constants *)

TickBudget == 300
Magnification == 3

----------------------------------------------------------------------------
(* Data *)

None == <<>>
Some(v) == <<v>>

IdA == <<"a">>
IdAA == <<"a", "-", "a">>
Ids == {IdA, IdAA}
Labels == {"l1", "l2"}
EdgeIds == {"e1", "e2"}

Node(i, d) == [id |-> i, data |-> d]
InputEdge(e, s, t) == [id |-> e, source |-> s, target |-> t]

(* Node records: id a with two payloads, id a-a with one. *)
NodeRecords == {Node(IdA, "l1"), Node(IdA, "l2"), Node(IdAA, "l1")}

(* Edge records: two ids for the pair (a, a-a), the reversed pair (a-a, a)  *)
(* and the self-loop (a, a).                                               *)
EdgeRecords ==
    {InputEdge("e1", IdA, IdAA), InputEdge("e2", IdA, IdAA),
     InputEdge("e2", IdAA, IdA), InputEdge("e1", IdA, IdA)}

SeqsUpTo(S, n) == UNION {[1..k -> S] : k \in 0..n}

Payload(t, n, e) == [null |-> FALSE, this |-> t, neighbors |-> n, edges |-> e]
NullPayload == [null |-> TRUE, this |-> None, neighbors |-> None, edges |-> None]

ThisOptions == {None} \cup {Some(r) : r \in NodeRecords}
NeighborOptions == {None} \cup {Some(s) : s \in SeqsUpTo(NodeRecords, MaxNeighbors)}
EdgeOptions == {None} \cup {Some(s) : s \in SeqsUpTo(EdgeRecords, MaxEdges)}

(* The fragments the aggregation is checked on: those with one of this,    *)
(* neighbors and edges present (or none), and two with all three, the      *)
(* first naming its focal node again among its neighbours.                 *)
FragmentSet ==
    {Payload(t, None, None) : t \in ThisOptions}
    \cup {Payload(None, n, None) : n \in NeighborOptions}
    \cup {Payload(None, None, e) : e \in EdgeOptions}
    \cup {Payload(Some(Node(IdA, "l1")), Some(<<Node(IdA, "l2")>>),
                  Some(<<InputEdge("e1", IdA, IdAA)>>)),
          Payload(Some(Node(IdAA, "l1")), Some(<<Node(IdA, "l2")>>),
                  Some(<<InputEdge("e2", IdAA, IdA)>>))}

----------------------------------------------------------------------------
(* JavaScript Map: insertion-ordered entries with distinct keys *)

MapHas(m, k) == \E j \in 1..Len(m) : m[j].key = k

(* Mutation of MapSet: a list push, which never replaces an entry. *)
MapSetAppends(m, k, v) == Append(m, [key |-> k, value |-> v])

MapSet(m, k, v) ==
    IF MapHas(m, k)
    THEN [j \in 1..Len(m) |-> IF m[j].key = k THEN [key |-> k, value |-> v] ELSE m[j]]
    ELSE Append(m, [key |-> k, value |-> v])

MapValues(m) == [j \in 1..Len(m) |-> m[j].value]

----------------------------------------------------------------------------
(* The body of connectionsData.forEach *)

edgeKey(edge) == edge.source \o <<"-">> \o edge.target

RECURSIVE SetNeighbors(_, _)
SetNeighbors(m, ns) ==
    IF ns = <<>> THEN m
    ELSE SetNeighbors(MapSet(m, Head(ns).id, Head(ns)), Tail(ns))

AddNodes(m, data) ==
    LET withThis == IF data.this # None
                    THEN MapSet(m, data.this[1].id, data.this[1])
                    ELSE m
    IN  IF data.neighbors # None
        THEN SetNeighbors(withThis, data.neighbors[1])
        ELSE withThis

AddEdge(m, edge) ==
    IF ~MapHas(m, edgeKey(edge)) THEN MapSet(m, edgeKey(edge), edge) ELSE m

RECURSIVE AddEdgeList(_, _)
AddEdgeList(m, es) ==
    IF es = <<>> THEN m
    ELSE AddEdgeList(AddEdge(m, Head(es)), Tail(es))

AddEdges(m, data) ==
    IF data.edges # None THEN AddEdgeList(m, data.edges[1]) ELSE m

(* Mutation of ForEachThrows: data.neighbors.forEach without the optional  *)
(* chaining, which raises on an absent neighbors field.                    *)
ForEachThrowsOnAbsent(data) == data.null \/ data.neighbors = None

(* Reading data.this of a null payload raises a TypeError; the optional     *)
(* chaining on neighbors and edges raises nothing.                         *)
ForEachThrows(data) == data.null

RECURSIVE Aggregate(_, _, _)
Aggregate(m, em, fragments) ==
    IF fragments = <<>> THEN [nodes |-> MapValues(m), edges |-> MapValues(em)]
    ELSE Aggregate(AddNodes(m, Head(fragments)), AddEdges(em, Head(fragments)),
                   Tail(fragments))

----------------------------------------------------------------------------
(* The server *)

(* The fragment bodies the whole pass is checked on: two overlapping       *)
(* fragments, one whose edge points at a node no fragment of its own       *)
(* defines, and the JSON value null.                                       *)
PipelineBodies ==
    { Payload(Some(Node(IdA, "l1")), Some(<<Node(IdAA, "l1")>>),
              Some(<<InputEdge("e1", IdA, IdAA)>>)),
      Payload(Some(Node(IdAA, "l2")), Some(<<Node(IdA, "l2")>>),
              Some(<<InputEdge("e2", IdA, IdAA)>>)),
      Payload(Some(Node(IdA, "l2")), None,
              Some(<<InputEdge("e1", IdA, IdAA)>>)),
      NullPayload }

Replies ==
    {[ok |-> TRUE, body |-> b] : b \in PipelineBodies}
    \cup {[ok |-> FALSE, body |-> NullPayload]}

EmptyGraph == [nodes |-> <<>>, edges |-> <<>>]

----------------------------------------------------------------------------
(* Promise.all over connectionPromises *)

(* Mutation of StoreResult: the values are pushed in completion order. *)
StoreResultPush(vals, i, v) == Append(Tail(vals), v)

StoreResult(vals, i, v) == [vals EXCEPT ![i] = v]

AllFulfilled == \A i \in 1..Len(promises) : promises[i] = "fulfilled"
SomeRejected == \E i \in 1..Len(promises) : promises[i] = "rejected"

----------------------------------------------------------------------------
(* d3-force, as far as applyForceLayout depends on it *)

NodeIdsOf(g) == {g.nodes[j].id : j \in 1..Len(g.nodes)}

(* forceLink(links).id(d => d.id) resolves both ends of every link when    *)
(* the force is registered and throws "node not found" for an unknown id.  *)
LinkInitThrows(g) ==
    \E j \in 1..Len(g.edges) :
        g.edges[j].source \notin NodeIdsOf(g) \/ g.edges[j].target \notin NodeIdsOf(g)

(* forceSimulation(nodes) seeds every node that has no position on a       *)
(* spiral around the origin; the placement depends on the index alone.     *)
SeedPosition(j) ==
    [x |-> Some(IF j % 2 = 1 THEN 7 * j ELSE -9 * (j \div 2)), y |-> Some(8 * (j - 1))]

(* One tick, on integer coordinates: the x and y forces of strength 0.1    *)
(* pull each coordinate towards 0.  The link, charge and collision forces  *)
(* move positions too; no property below depends on the values they give.  *)
Pull(c) == IF c = None THEN c ELSE Some(c[1] - (c[1] \div 10))
SimTick(s) == [j \in 1..Len(s) |-> [x |-> Pull(s[j].x), y |-> Pull(s[j].y)]]

(* Mutation of TickLoopCond: an inclusive loop bound. *)
TickLoopCondInclusive(i) == i <= TickBudget

(* for (let i = 0; i < 300; ++i) *)
TickLoopCond(i) == i < TickBudget

----------------------------------------------------------------------------
(* Projection *)

(* Mutation of Scale: the magnification is left out. *)
ScaleUnscaled(c) == IF c = None THEN 0 ELSE c[1]

(* (node.x ?? 0) * 3 *)
Scale(c) == (IF c = None THEN 0 ELSE c[1]) * Magnification

ProjectNodes(g, s) ==
    [j \in 1..Len(g.nodes) |->
        [id |-> g.nodes[j].id,
         position |-> [x |-> Scale(s[j].x), y |-> Scale(s[j].y)],
         data |-> g.nodes[j].data]]

(* String(edge.source) and String(edge.target) leave a string id as it is. *)
ProjectEdges(g) ==
    [j \in 1..Len(g.edges) |->
        [id |-> g.edges[j].id, source |-> g.edges[j].source,
         target |-> g.edges[j].target]]

----------------------------------------------------------------------------
(* Initial states *)

Init ==
    /\ pc = "fetchIds"
    /\ idsOutcome \in {"ok", "reject", "malformed"}
    /\ idList \in SeqsUpTo(Ids, MaxFetches)
    /\ replies \in [1..Len(idList) -> Replies]
    /\ promises = <<>>
    /\ results = <<>>
    /\ connectionsData = <<>>
    /\ aggIdx = 1
    /\ allNodes = <<>>
    /\ edgeMap = <<>>
    /\ graphData = EmptyGraph
    /\ sim = <<>>
    /\ ticks = 0
    /\ nodesWithPositions = <<>>
    /\ formattedEdges = <<>>
    /\ nodes = <<>>
    /\ edges = <<>>
    /\ loading = TRUE
    /\ caught = FALSE

(* fetchGraph at the start of the forEach, for any array of well-formed    *)
(* fragments that Promise.all can have resolved with.                      *)
InitAggregation ==
    /\ pc = "aggregate"
    /\ idsOutcome = "ok"
    /\ connectionsData \in SeqsUpTo(FragmentSet, MaxFragments)
    /\ idList = [i \in 1..Len(connectionsData) |-> IdA]
    /\ replies = [i \in 1..Len(connectionsData) |->
                    [ok |-> TRUE, body |-> connectionsData[i]]]
    /\ promises = [i \in 1..Len(connectionsData) |-> "fulfilled"]
    /\ results = connectionsData
    /\ aggIdx = 1
    /\ allNodes = <<>>
    /\ edgeMap = <<>>
    /\ graphData = EmptyGraph
    /\ sim = <<>>
    /\ ticks = 0
    /\ nodesWithPositions = <<>>
    /\ formattedEdges = <<>>
    /\ nodes = <<>>
    /\ edges = <<>>
    /\ loading = TRUE
    /\ caught = FALSE

----------------------------------------------------------------------------
(* Actions *)

(* await fetch('/graphs/nodes'), await nodesResponse.json(), and            *)
(* nodeIdsData.id.map(...), which issues every fragment fetch.             *)
FetchNodeIds ==
    /\ pc = "fetchIds"
    /\ IF idsOutcome = "ok"
       THEN /\ promises' = [i \in 1..Len(idList) |-> "pending"]
            /\ results' = [i \in 1..Len(idList) |-> NullPayload]
            /\ pc' = "awaitAll"
       ELSE /\ pc' = "catch"
            /\ UNCHANGED <<promises, results>>
    /\ UNCHANGED <<idsOutcome, idList, replies, connectionsData, aggIdx, allNodes,
                   edgeMap, graphData, sim, ticks, nodesWithPositions,
                   formattedEdges, nodes, edges, loading, caught>>

(* One fragment fetch settles: response.json() resolves or the fetch       *)
(* rejects.  fetchGraph runs to completion once Promise.all has settled,   *)
(* so a fetch settles while fetchGraph awaits or after it has returned.    *)
FetchSettles(i) ==
    /\ pc \in {"awaitAll", "done"}
    /\ promises[i] = "pending"
    /\ IF replies[i].ok
       THEN /\ promises' = [promises EXCEPT ![i] = "fulfilled"]
            /\ results' = StoreResult(results, i, replies[i].body)
       ELSE /\ promises' = [promises EXCEPT ![i] = "rejected"]
            /\ UNCHANGED results
    /\ UNCHANGED <<pc, idsOutcome, idList, replies, connectionsData, aggIdx,
                   allNodes, edgeMap, graphData, sim, ticks, nodesWithPositions,
                   formattedEdges, nodes, edges, loading, caught>>

(* await Promise.all(connectionPromises) resolves *)
PromiseAllResolves ==
    /\ pc = "awaitAll"
    /\ AllFulfilled
    /\ connectionsData' = results
    /\ aggIdx' = 1
    /\ pc' = "aggregate"
    /\ UNCHANGED <<idsOutcome, idList, replies, promises, results, allNodes,
                   edgeMap, graphData, sim, ticks, nodesWithPositions,
                   formattedEdges, nodes, edges, loading, caught>>

(* await Promise.all(connectionPromises) rejects with the first rejection *)
PromiseAllRejects ==
    /\ pc = "awaitAll"
    /\ SomeRejected
    /\ pc' = "catch"
    /\ UNCHANGED <<idsOutcome, idList, replies, promises, results,
                   connectionsData, aggIdx, allNodes, edgeMap, graphData, sim,
                   ticks, nodesWithPositions, formattedEdges, nodes, edges,
                   loading, caught>>

(* One iteration of connectionsData.forEach *)
AggregateFragment ==
    /\ pc = "aggregate"
    /\ aggIdx <= Len(connectionsData)
    /\ IF ForEachThrows(connectionsData[aggIdx])
       THEN /\ pc' = "catch"
            /\ UNCHANGED <<aggIdx, allNodes, edgeMap>>
       ELSE /\ allNodes' = AddNodes(allNodes, connectionsData[aggIdx])
            /\ edgeMap' = AddEdges(edgeMap, connectionsData[aggIdx])
            /\ aggIdx' = aggIdx + 1
            /\ pc' = pc
    /\ UNCHANGED <<idsOutcome, idList, replies, promises, results,
                   connectionsData, graphData, sim, ticks, nodesWithPositions,
                   formattedEdges, nodes, edges, loading, caught>>

(* const graphData = {nodes: Array.from(allNodes.values()), edges: ...} *)
BuildGraph ==
    /\ pc = "aggregate"
    /\ aggIdx > Len(connectionsData)
    /\ graphData' = [nodes |-> MapValues(allNodes), edges |-> MapValues(edgeMap)]
    /\ pc' = "layout"
    /\ UNCHANGED <<idsOutcome, idList, replies, promises, results,
                   connectionsData, aggIdx, allNodes, edgeMap, sim, ticks,
                   nodesWithPositions, formattedEdges, nodes, edges, loading,
                   caught>>

(* applyForceLayout up to the tick loop: the simulation and its forces *)
CreateSimulation ==
    /\ pc = "layout"
    /\ IF LinkInitThrows(graphData)
       THEN /\ pc' = "catch"
            /\ sim' = [j \in 1..Len(graphData.nodes) |-> SeedPosition(j)]
            /\ UNCHANGED ticks
       ELSE /\ pc' = "simulate"
            /\ sim' = [j \in 1..Len(graphData.nodes) |-> SeedPosition(j)]
            /\ ticks' = 0
    /\ UNCHANGED <<idsOutcome, idList, replies, promises, results,
                   connectionsData, aggIdx, allNodes, edgeMap, graphData,
                   nodesWithPositions, formattedEdges, nodes, edges, loading,
                   caught>>

(* simulation.tick() *)
Tick ==
    /\ pc = "simulate"
    /\ TickLoopCond(ticks)
    /\ sim' = SimTick(sim)
    /\ ticks' = ticks + 1
    /\ UNCHANGED <<pc, idsOutcome, idList, replies, promises, results,
                   connectionsData, aggIdx, allNodes, edgeMap, graphData,
                   nodesWithPositions, formattedEdges, nodes, edges, loading,
                   caught>>

(* nodesWithPositions and formattedEdges are computed *)
Project ==
    /\ pc = "simulate"
    /\ ~TickLoopCond(ticks)
    /\ nodesWithPositions' = ProjectNodes(graphData, sim)
    /\ formattedEdges' = ProjectEdges(graphData)
    /\ pc' = "setNodes"
    /\ UNCHANGED <<idsOutcome, idList, replies, promises, results,
                   connectionsData, aggIdx, allNodes, edgeMap, graphData, sim,
                   ticks, nodes, edges, loading, caught>>

(* Mutation of SetNodes: the loading flag is cleared before setEdges. *)
SetNodesEarlyReady ==
    /\ pc = "setNodes"
    /\ nodes' = nodesWithPositions
    /\ loading' = FALSE
    /\ pc' = "setEdges"
    /\ UNCHANGED <<idsOutcome, idList, replies, promises, results,
                   connectionsData, aggIdx, allNodes, edgeMap, graphData, sim,
                   ticks, nodesWithPositions, formattedEdges, edges, caught>>

(* setNodes(nodesWithPositions) *)
SetNodes ==
    /\ pc = "setNodes"
    /\ nodes' = nodesWithPositions
    /\ pc' = "setEdges"
    /\ UNCHANGED <<idsOutcome, idList, replies, promises, results,
                   connectionsData, aggIdx, allNodes, edgeMap, graphData, sim,
                   ticks, nodesWithPositions, formattedEdges, edges, loading,
                   caught>>

(* setEdges(formattedEdges); applyForceLayout returns *)
SetEdges ==
    /\ pc = "setEdges"
    /\ edges' = formattedEdges
    /\ pc' = "finally"
    /\ UNCHANGED <<idsOutcome, idList, replies, promises, results,
                   connectionsData, aggIdx, allNodes, edgeMap, graphData, sim,
                   ticks, nodesWithPositions, formattedEdges, nodes, loading,
                   caught>>

(* Mutation of Catch: setLoading(false) sits at the end of the try block,   *)
(* so the error path returns without it.                                   *)
CatchWithoutFinally ==
    /\ pc = "catch"
    /\ caught' = TRUE
    /\ pc' = "done"
    /\ UNCHANGED <<idsOutcome, idList, replies, promises, results,
                   connectionsData, aggIdx, allNodes, edgeMap, graphData, sim,
                   ticks, nodesWithPositions, formattedEdges, nodes, edges,
                   loading>>

(* catch (error) { console.error(...) } *)
Catch ==
    /\ pc = "catch"
    /\ caught' = TRUE
    /\ pc' = "finally"
    /\ UNCHANGED <<idsOutcome, idList, replies, promises, results,
                   connectionsData, aggIdx, allNodes, edgeMap, graphData, sim,
                   ticks, nodesWithPositions, formattedEdges, nodes, edges,
                   loading>>

(* finally { setLoading(false) } *)
Finally ==
    /\ pc = "finally"
    /\ loading' = FALSE
    /\ pc' = "done"
    /\ UNCHANGED <<idsOutcome, idList, replies, promises, results,
                   connectionsData, aggIdx, allNodes, edgeMap, graphData, sim,
                   ticks, nodesWithPositions, formattedEdges, nodes, edges,
                   caught>>

Next ==
    \/ FetchNodeIds
    \/ \E i \in 1..Len(promises) : FetchSettles(i)
    \/ PromiseAllResolves
    \/ PromiseAllRejects
    \/ AggregateFragment
    \/ BuildGraph
    \/ CreateSimulation
    \/ Tick
    \/ Project
    \/ SetNodes
    \/ SetEdges
    \/ Catch
    \/ Finally

Spec == Init /\ [][Next]_vars

(* Every issued fetch settles, and fetchGraph's own steps are taken. *)
FairSpec == Spec /\ WF_vars(Next)

NextAggregation == AggregateFragment \/ BuildGraph

AggSpec == InitAggregation /\ [][NextAggregation]_vars

----------------------------------------------------------------------------
(* Properties *)

(* The node records of the fragments, in arrival order: fragments in       *)
(* order, and within a fragment `this` before the neighbours in order.     *)
RECURSIVE NodeOccurrences(_)
NodeOccurrences(fragments) ==
    IF fragments = <<>> THEN <<>>
    ELSE Head(fragments).this
         \o (IF Head(fragments).neighbors # None
             THEN Head(fragments).neighbors[1] ELSE <<>>)
         \o NodeOccurrences(Tail(fragments))

(* The edge records of the fragments, in arrival order. *)
RECURSIVE EdgeOccurrences(_)
EdgeOccurrences(fragments) ==
    IF fragments = <<>> THEN <<>>
    ELSE (IF Head(fragments).edges # None THEN Head(fragments).edges[1] ELSE <<>>)
         \o EdgeOccurrences(Tail(fragments))

FirstWithId(occ, id) ==
    occ[CHOOSE j \in 1..Len(occ) :
            occ[j].id = id /\ \A k \in 1..(j - 1) : occ[k].id # id]

SamePair(e, f) == e.source = f.source /\ e.target = f.target

FirstWithPair(occ, e) ==
    occ[CHOOSE j \in 1..Len(occ) :
            SamePair(occ[j], e) /\ \A k \in 1..(j - 1) : ~SamePair(occ[k], e)]

Dangling(g, e) == e.source \notin NodeIdsOf(g) \/ e.target \notin NodeIdsOf(g)

HasDanglingEdge(g) == \E j \in 1..Len(g.edges) : Dangling(g, g.edges[j])

Coord(c) == IF c = None THEN 0 ELSE c[1]

(* applyForceLayout has computed the projection and fetchGraph has not     *)
(* gone through its catch block.                                           *)
Projected ==
    \/ pc \in {"setNodes", "setEdges"}
    \/ pc \in {"finally", "done"} /\ ~caught

(* Promise.all has resolved and fetchGraph has not gone through catch. *)
Joined ==
    \/ pc \in {"aggregate", "layout", "simulate", "setNodes", "setEdges"}
    \/ pc \in {"finally", "done"} /\ ~caught

(* The graph has been built from allNodes and edgeMap. *)
GraphBuilt ==
    \/ pc \in {"layout", "simulate", "setNodes", "setEdges"}
    \/ pc \in {"finally", "done"} /\ ~caught

ExpectedData == [i \in 1..Len(idList) |-> replies[i].body]

(* C1: once the graph is built, every node id that occurs in the fragments *)
(* is stored in the graph with the record of its FIRST occurrence in       *)
(* arrival order.  (Stated as the claim; the code violates it.)            *)
C1_FirstSeenWins ==
    pc = "layout" =>
        LET occ == NodeOccurrences(connectionsData)
        IN  \A j \in 1..Len(occ) :
                \E k \in 1..Len(graphData.nodes) :
                    /\ graphData.nodes[k].id = occ[j].id
                    /\ graphData.nodes[k] = FirstWithId(occ, occ[j].id)

(* C2: once the graph is built, for every ordered pair (source, target)    *)
(* that occurs among the input edges the graph holds exactly one edge with *)
(* that pair, and it is the first edge observed for the pair.  (Stated as  *)
(* the claim; the code violates it.)                                       *)
C2_EdgePairIdentity ==
    pc = "layout" =>
        LET occ == EdgeOccurrences(connectionsData)
        IN  \A j \in 1..Len(occ) :
                /\ Cardinality({k \in 1..Len(graphData.edges) :
                                  SamePair(graphData.edges[k], occ[j])}) = 1
                /\ \E k \in 1..Len(graphData.edges) :
                        graphData.edges[k] = FirstWithPair(occ, occ[j])

(* C3: when the aggregated graph holds an edge whose source or target is   *)
(* no aggregated node, the pass still ends without an error, the           *)
(* positioned nodes are published and no such edge is among the published  *)
(* edges.  (Stated as the claim; the code violates it.)                    *)
C3_DanglingEdgeTolerated ==
    (pc = "done" /\ HasDanglingEdge(graphData)) =>
        /\ ~caught
        /\ Len(nodes) = Len(graphData.nodes)
        /\ \A j \in 1..Len(edges) : ~Dangling(graphData, edges[j])

C5_AggregationTotal ==
    /\ pc \in {"aggregate", "layout"}
    /\ ~caught
    /\ pc = "layout" =>
        LET nocc == NodeOccurrences(connectionsData)
            eocc == EdgeOccurrences(connectionsData)
        IN  /\ NodeIdsOf(graphData) = {nocc[j].id : j \in 1..Len(nocc)}
            /\ Len(graphData.nodes) = Cardinality(NodeIdsOf(graphData))
            /\ \A k \in 1..Len(graphData.edges) :
                  \E j \in 1..Len(eocc) : graphData.edges[k] = eocc[j]
            /\ (eocc # <<>>) => (graphData.edges # <<>>)
            /\ (connectionsData = <<>>) => (graphData = EmptyGraph)

C5_Witness ==
    /\ pc = "layout"
    /\ Len(connectionsData) = 2
    /\ connectionsData[1] = Payload(None, None, None)
    /\ connectionsData[2].neighbors = None
    /\ connectionsData[2].edges = None
    /\ Len(graphData.nodes) = 1

(* C6: whenever loading is false, either the pass failed and nodes and     *)
(* edges are both still empty, or it succeeded and nodes and edges are     *)
(* both complete: one positioned node per aggregated node and one edge per *)
(* aggregated edge, in order.                                              *)
C6_ReadyGate ==
    (loading = FALSE) =>
        \/ caught /\ nodes = <<>> /\ edges = <<>>
        \/ /\ ~caught
           /\ Len(nodes) = Len(graphData.nodes)
           /\ \A j \in 1..Len(nodes) : nodes[j].id = graphData.nodes[j].id
           /\ Len(edges) = Len(graphData.edges)
           /\ \A j \in 1..Len(edges) : edges[j].id = graphData.edges[j].id

C6_Witness ==
    /\ loading = FALSE
    /\ ~caught
    /\ Len(nodes) = 2
    /\ Len(edges) = 1

(* C7: once projected, every aggregated node has one projected node with   *)
(* the same id and data and the position (3 * x, 3 * y), where (x, y) is   *)
(* the node's position after the last tick and a missing coordinate counts *)
(* as 0; the published nodes are these.                                    *)
C7_ScaleInvariant ==
    Projected =>
        /\ Len(nodesWithPositions) = Len(graphData.nodes)
        /\ \A j \in 1..Len(graphData.nodes) :
              /\ nodesWithPositions[j].id = graphData.nodes[j].id
              /\ nodesWithPositions[j].data = graphData.nodes[j].data
              /\ nodesWithPositions[j].position.x = 3 * Coord(sim[j].x)
              /\ nodesWithPositions[j].position.y = 3 * Coord(sim[j].y)
        /\ (pc \in {"setEdges", "finally", "done"}) => (nodes = nodesWithPositions)

C7_Witness ==
    /\ pc = "done"
    /\ ~caught
    /\ Len(nodes) = 2
    /\ nodes[1].position.x = 21
    /\ nodes[2].position.y = 24

(* C8: a tick is applied only after the aggregation of every fragment has  *)
(* finished and the graph is built; the projection is computed and         *)
(* published only after exactly 300 ticks; there are never more than 300.  *)
C8_StageOrder ==
    /\ ticks <= 300
    /\ (pc \in {"awaitAll", "aggregate", "layout"}) => (ticks = 0 /\ sim = <<>>)
    /\ (ticks > 0 \/ pc = "simulate") =>
          /\ aggIdx = Len(connectionsData) + 1
          /\ graphData = [nodes |-> MapValues(allNodes), edges |-> MapValues(edgeMap)]
    /\ Projected => ticks = 300
    /\ (nodesWithPositions # <<>> \/ formattedEdges # <<>>
            \/ nodes # <<>> \/ edges # <<>>) => ticks = 300

C8_Witness ==
    /\ pc = "setNodes"
    /\ ticks = 300
    /\ Len(nodesWithPositions) = 2
    /\ Len(formattedEdges) = 1

(* C9: in every execution in which the issued fetches settle and           *)
(* fetchGraph takes its steps, loading eventually is false and stays       *)
(* false, on the success path and on every failure path.                   *)
C9_LoadingClears == <>[](loading = FALSE)

C9_Witness ==
    /\ pc = "done"
    /\ caught
    /\ loading = FALSE
    /\ \E i \in 1..Len(promises) : promises[i] = "pending"

(* C10: the aggregation starts only after every fragment fetch is          *)
(* fulfilled; what it reads is the fragments in the order of the node-id   *)
(* list, whatever the order in which the fetches completed, and the graph  *)
(* built is the aggregate of the fragments in that order.                  *)
C10_CompletionOrderIndependent ==
    /\ (aggIdx > 1 \/ allNodes # <<>> \/ edgeMap # <<>>) => AllFulfilled
    /\ Joined => (AllFulfilled /\ connectionsData = ExpectedData)
    /\ GraphBuilt => graphData = Aggregate(<<>>, <<>>, ExpectedData)

C10_Witness ==
    /\ pc = "done"
    /\ ~caught
    /\ Len(idList) = 2
    /\ replies[1].body # replies[2].body
    /\ Len(graphData.nodes) = 2

====
